---- MODULE Spec2Model ----
(***************************************************************************)
(* Model of sgx-types/src/page.rs: the page `Flags` bit set, the page      *)
(* `Class` enumeration and the 64-byte `SecInfo` descriptor with its       *)
(* constructors, public fields and byte view.                              *)
(*                                                                         *)
(* A Flags value is modelled by its backing byte (`bits: u8`), a Class by  *)
(* the name of its variant, a SecInfo by a record of its three fields, and *)
(* a byte view by the sequence of bytes read through it.                   *)
(***************************************************************************)
EXTENDS Integers, Sequences, FiniteSets

VARIABLES
    fa,     \* a Flags value held by the caller (left operand / receiver)
    fb,     \* a second Flags value held by the caller (right operand)
    desc,   \* the SecInfo value held by the caller: <<>> before construction, else <<d>>
    views,  \* the live `&[u8]` borrows of desc[1], each as the bytes read through it
    last    \* the operation executed last and its argument

vars == <<fa, fb, desc, views, last>>

(***************************************************************************)
(* Bounds of the model.                                                    *)
(***************************************************************************)
MaxViews == 2      \* number of simultaneously live byte views

(***************************************************************************)
(* u8 arithmetic: the backing store of Flags is one byte.                  *)
(***************************************************************************)
U8Bits == 8

U8 == 0..(2^U8Bits - 1)

RECURSIVE AndBits(_, _, _)
AndBits(a, b, n) ==
    IF n = 0 THEN 0
    ELSE ((a % 2) * (b % 2)) + 2 * AndBits(a \div 2, b \div 2, n - 1)

RECURSIVE OrBits(_, _, _)
OrBits(a, b, n) ==
    IF n = 0 THEN 0
    ELSE (IF (a % 2) + (b % 2) > 0 THEN 1 ELSE 0) + 2 * OrBits(a \div 2, b \div 2, n - 1)

RECURSIVE XorBits(_, _, _)
XorBits(a, b, n) ==
    IF n = 0 THEN 0
    ELSE (((a % 2) + (b % 2)) % 2) + 2 * XorBits(a \div 2, b \div 2, n - 1)

BitAnd(a, b) == AndBits(a, b, U8Bits)
BitOr(a, b)  == OrBits(a, b, U8Bits)
BitXor(a, b) == XorBits(a, b, U8Bits)
BitNot(a)    == (2^U8Bits - 1) - a
Shl(a, n)    == (a * 2^n) % 2^U8Bits

(***************************************************************************)
(* bitflags! { pub struct Flags: u8 { ... } }                              *)
(* The set operations are those the bitflags 1.x macro generates for the    *)
(* struct: bitwise operations on `bits`, with `!` truncated to all().       *)
(* from_bits_unchecked is unsafe and not part of the safe interface.        *)
(***************************************************************************)
R        == Shl(1, 0)
W        == Shl(1, 1)
X        == Shl(1, 2)
PENDING  == Shl(1, 3)
MODIFIED == Shl(1, 4)
PR       == Shl(1, 5)

FlagConsts == {R, W, X, PENDING, MODIFIED, PR}

RECURSIVE OrAll(_)
OrAll(S) ==
    IF S = {} THEN 0
    ELSE LET c == CHOOSE x \in S : TRUE IN BitOr(c, OrAll(S \ {c}))

\* Flags::empty() and Flags::all()
empty == 0
all   == OrAll(FlagConsts)

\* The set operations the generated type offers, on the backing bytes.
union_as_add(a, b) == (a + b) % 2^U8Bits
union(a, b)        == BitOr(a, b)
intersection(a, b) == BitAnd(a, b)
difference(a, b)   == BitAnd(a, BitNot(b))
complement_untruncated(a) == BitNot(a)
complement(a)      == BitAnd(BitNot(a), all)
insert(a, b)       == BitOr(a, b)
remove(a, b)       == BitAnd(a, BitNot(b))
toggle(a, b)       == BitXor(a, b)

\* Every value of type Flags that safe code can hold.
FlagsValues == {b \in U8 : BitAnd(b, BitNot(all)) = 0}

(***************************************************************************)
(* #[repr(u8)] pub enum Class                                              *)
(***************************************************************************)
Class == {"Secs", "Tcs", "Reg", "Va", "Trim"}

ClassTag_swapped(c) ==
    CASE c = "Secs" -> 0
      [] c = "Tcs"  -> 2
      [] c = "Reg"  -> 1
      [] c = "Va"   -> 3
      [] c = "Trim" -> 4

ClassTag_collide(c) ==
    CASE c = "Secs" -> 0
      [] c = "Tcs"  -> 1
      [] c = "Reg"  -> 1
      [] c = "Va"   -> 3
      [] c = "Trim" -> 4

ClassTag(c) ==
    CASE c = "Secs" -> 0
      [] c = "Tcs"  -> 1
      [] c = "Reg"  -> 2
      [] c = "Va"   -> 3
      [] c = "Trim" -> 4

(***************************************************************************)
(* #[repr(C, align(64))] pub struct SecInfo { flags, class, reserved }     *)
(***************************************************************************)
SecInfoAlign == 64
ReservedLen  == 31
U16Bytes     == 2

\* The fields in declaration order, each with the size and alignment of its type:
\* Flags wraps a u8, Class is repr(u8), reserved is [u16; 31].
Fields_short_reserved ==
    << [name |-> "flags",    size |-> 1, align |-> 1],
       [name |-> "class",    size |-> 1, align |-> 1],
       [name |-> "reserved", size |-> U16Bytes * (ReservedLen - 1), align |-> U16Bytes] >>

Fields ==
    << [name |-> "flags",    size |-> 1, align |-> 1],
       [name |-> "class",    size |-> 1, align |-> 1],
       [name |-> "reserved", size |-> U16Bytes * ReservedLen, align |-> U16Bytes] >>

AlignUp(x, a) == ((x + a - 1) \div a) * a

SetMax(S) == CHOOSE m \in S : \A x \in S : x <= m

\* repr(C): each field is placed at the first offset after the previous field
\* that satisfies its alignment.
RECURSIVE FieldOffset(_)
FieldOffset(i) ==
    IF i = 1 THEN 0
    ELSE AlignUp(FieldOffset(i - 1) + Fields[i - 1].size, Fields[i].align)

FieldIndex(n) == CHOOSE i \in DOMAIN Fields : Fields[i].name = n

OffsetOf(n) == FieldOffset(FieldIndex(n))

\* align(64) raises the alignment of the struct; the size is rounded up to it.
AlignOf == SetMax({Fields[i].align : i \in DOMAIN Fields} \cup {SecInfoAlign})

SizeOf == AlignUp(FieldOffset(Len(Fields)) + Fields[Len(Fields)].size, AlignOf)

\* The byte offsets a field occupies, and the offsets no field occupies.
FieldBytes(n) == OffsetOf(n) .. (OffsetOf(n) + Fields[FieldIndex(n)].size - 1)

PaddingBytes == (0 .. (SizeOf - 1)) \ UNION {FieldBytes(Fields[i].name) : i \in DOMAIN Fields}

ZeroReserved == [i \in 1..ReservedLen |-> 0]

SecInfo == [flags : FlagsValues, class : Class, reserved : {ZeroReserved}]

(***************************************************************************)
(* impl SecInfo                                                            *)
(***************************************************************************)
reg_masks_state_bits(flags) ==
    [flags |-> BitAnd(flags, union(R, union(W, X))), class |-> "Reg", reserved |-> ZeroReserved]

reg_wrong_class(flags) ==
    [flags |-> flags, class |-> "Secs", reserved |-> ZeroReserved]

reg(flags) ==
    [flags |-> flags, class |-> "Reg", reserved |-> ZeroReserved]

tcs_with_flags ==
    [flags |-> R, class |-> "Tcs", reserved |-> ZeroReserved]

tcs ==
    [flags |-> empty, class |-> "Tcs", reserved |-> ZeroReserved]

\* derive(Copy, Clone): a field-by-field copy.
Clone_dirty_reserved(d) ==
    [flags |-> d.flags, class |-> d.class, reserved |-> [i \in 1..ReservedLen |-> 1]]

Clone(d) ==
    [flags |-> d.flags, class |-> d.class, reserved |-> d.reserved]

\* Assignment to the public fields.
set_flags(d, f) == [d EXCEPT !.flags = f]
set_class(d, c) == [d EXCEPT !.class = c]

(***************************************************************************)
(* impl AsRef<[u8]> for SecInfo                                            *)
(***************************************************************************)
\* What a read of a byte belonging to no field yields: no u8 value.
Uninit == 2^U8Bits

\* The byte of the descriptor's memory at offset off (little-endian words).
ByteAt_swapped(d, off) ==
    IF off \in FieldBytes("flags") THEN ClassTag(d.class)
    ELSE IF off \in FieldBytes("class") THEN d.flags
    ELSE IF off \in FieldBytes("reserved")
         THEN LET k == off - OffsetOf("reserved")
                  w == d.reserved[(k \div U16Bytes) + 1]
              IN  IF k % U16Bytes = 0 THEN w % 2^U8Bits ELSE w \div 2^U8Bits
    ELSE Uninit

ByteAt(d, off) ==
    IF off \in FieldBytes("flags") THEN d.flags
    ELSE IF off \in FieldBytes("class") THEN ClassTag(d.class)
    ELSE IF off \in FieldBytes("reserved")
         THEN LET k == off - OffsetOf("reserved")
                  w == d.reserved[(k \div U16Bytes) + 1]
              IN  IF k % U16Bytes = 0 THEN w % 2^U8Bits ELSE w \div 2^U8Bits
    ELSE Uninit

\* from_raw_parts(self as *const u8, size_of_val(self))
as_ref(d) == [k \in 1..SizeOf |-> ByteAt(d, k - 1)]

(***************************************************************************)
(* State machine.                                                          *)
(***************************************************************************)
Live == desc # <<>>

NoCall == [op |-> "none", arg |-> 0]

Init ==
    /\ fa = empty
    /\ fb = empty
    /\ desc = <<>>
    /\ views = <<>>
    /\ last = NoCall

\* ---- operations on Flags values: fa is the receiver, the operand is a named
\* ---- constant, Flags::empty(), Flags::all() or the caller's other value fb ----
Operands == FlagConsts \cup {empty, all, fb}

\* fb = Flags::R, Flags::empty(), Flags::all(), ...
Const ==
    /\ \E c \in FlagConsts \cup {empty, all} : fb' = c
    /\ last' = [op |-> "const", arg |-> 0]
    /\ UNCHANGED <<fa, desc, views>>

\* fb = fa (Flags is Copy)
Let ==
    /\ fb' = fa
    /\ last' = [op |-> "let", arg |-> 0]
    /\ UNCHANGED <<fa, desc, views>>

Union ==
    /\ \E o \in Operands : fa' = union(fa, o)
    /\ last' = [op |-> "union", arg |-> 0]
    /\ UNCHANGED <<fb, desc, views>>

Intersection ==
    /\ \E o \in Operands : fa' = intersection(fa, o)
    /\ last' = [op |-> "intersection", arg |-> 0]
    /\ UNCHANGED <<fb, desc, views>>

Difference ==
    /\ \E o \in Operands : fa' = difference(fa, o)
    /\ last' = [op |-> "difference", arg |-> 0]
    /\ UNCHANGED <<fb, desc, views>>

Complement ==
    /\ fa' = complement(fa)
    /\ last' = [op |-> "complement", arg |-> 0]
    /\ UNCHANGED <<fb, desc, views>>

Insert ==
    /\ \E o \in Operands : fa' = insert(fa, o)
    /\ last' = [op |-> "insert", arg |-> 0]
    /\ UNCHANGED <<fb, desc, views>>

Remove ==
    /\ \E o \in Operands : fa' = remove(fa, o)
    /\ last' = [op |-> "remove", arg |-> 0]
    /\ UNCHANGED <<fb, desc, views>>

Toggle ==
    /\ \E o \in Operands : fa' = toggle(fa, o)
    /\ last' = [op |-> "toggle", arg |-> 0]
    /\ UNCHANGED <<fb, desc, views>>

\* ---- operations on the descriptor ----
\* A live `&[u8]` borrows the descriptor: it cannot be assigned to while a view lives.

\* desc = SecInfo::reg(f)
Reg ==
    /\ views = <<>>
    /\ \E f \in FlagsValues :
          /\ desc' = <<reg(f)>>
          /\ last' = [op |-> "reg", arg |-> f]
    /\ UNCHANGED <<fa, fb, views>>

\* desc = SecInfo::tcs()
Tcs ==
    /\ views = <<>>
    /\ desc' = <<tcs>>
    /\ last' = [op |-> "tcs", arg |-> 0]
    /\ UNCHANGED <<fa, fb, views>>

\* let desc = desc;  (a copy; the model follows the copy, which nothing borrows)
Copy ==
    /\ Live
    /\ desc' = <<Clone(desc[1])>>
    /\ views' = <<>>
    /\ last' = [op |-> "copy", arg |-> 0]
    /\ UNCHANGED <<fa, fb>>

\* desc.flags = f
SetFlags ==
    /\ Live
    /\ views = <<>>
    /\ \E f \in FlagsValues :
          /\ desc' = <<set_flags(desc[1], f)>>
          /\ last' = [op |-> "set_flags", arg |-> f]
    /\ UNCHANGED <<fa, fb, views>>

\* desc.class = c
SetClass ==
    /\ Live
    /\ views = <<>>
    /\ \E c \in Class :
          /\ desc' = <<set_class(desc[1], c)>>
          /\ last' = [op |-> "set_class", arg |-> c]
    /\ UNCHANGED <<fa, fb, views>>

\* let v: &[u8] = desc.as_ref();
AsRef ==
    /\ Live
    /\ Len(views) < MaxViews
    /\ views' = Append(views, as_ref(desc[1]))
    /\ last' = [op |-> "as_ref", arg |-> 0]
    /\ UNCHANGED <<fa, fb, desc>>

\* a view goes out of scope
Release ==
    /\ views # <<>>
    /\ \E i \in DOMAIN views :
          views' = [k \in 1..(Len(views) - 1) |-> IF k < i THEN views[k] ELSE views[k + 1]]
    /\ last' = [op |-> "release", arg |-> 0]
    /\ UNCHANGED <<fa, fb, desc>>

\* The Flags algebra alone.
NextFlags ==
    \/ Const \/ Let \/ Union \/ Intersection \/ Difference
    \/ Complement \/ Insert \/ Remove \/ Toggle

\* Everything a user of SecInfo can do.
Next ==
    \/ Reg \/ Tcs \/ Copy \/ SetFlags \/ SetClass \/ AsRef \/ Release

SpecFlags == Init /\ [][NextFlags]_vars
Spec      == Init /\ [][Next]_vars

(***************************************************************************)
(* Properties.                                                             *)
(***************************************************************************)
\* The descriptors SecInfo::reg and SecInfo::tcs can return, and their byte views.
Constructed == {reg(f) : f \in FlagsValues} \cup {tcs}

ViewOf == [x \in Constructed |-> as_ref(x)]

\* The class/flags combinations the two constructors cover.
Covered(d) == d.class = "Reg" \/ (d.class = "Tcs" /\ d.flags = 0)

\* Reading the structured fields back out of 64 bytes.
DecodeView(v) ==
    [flags |-> v[1],
     class |-> IF \E c \in Class : ClassTag(c) = v[2]
               THEN CHOOSE c \in Class : ClassTag(c) = v[2]
               ELSE "invalid"]

\* C1: SecInfo is 64 bytes large and 64-byte aligned, flags is at offset 0 and
\* class at offset 1, reserved covers bytes 2..63, and no byte is padding: every
\* byte read through a view belongs to a declared field.
C1_Layout ==
    /\ SizeOf = 64
    /\ AlignOf = 64
    /\ OffsetOf("flags") = 0
    /\ OffsetOf("class") = 1
    /\ FieldBytes("reserved") = 2..63
    /\ PaddingBytes = {}
    /\ \A i \in DOMAIN views :
          /\ Len(views[i]) = 64
          /\ \A k \in DOMAIN views[i] : views[i][k] # Uninit

C1_Witness ==
    /\ last.op = "as_ref"
    /\ Len(views) = MaxViews

\* C2: for each of the 64 Flags values f, SecInfo::reg(f) returns a descriptor
\* (it cannot fail) of class Reg, with flags f unchanged and reserved all zero.
C2_RegResult ==
    /\ Cardinality(FlagsValues) = 64
    /\ \A f \in FlagsValues : reg(f) \in SecInfo
    /\ last.op = "reg" =>
          /\ Live
          /\ desc[1].class = "Reg"
          /\ desc[1].flags = last.arg
          /\ desc[1].reserved = [i \in 1..31 |-> 0]

C2_Witness ==
    /\ last.op = "reg"
    /\ last.arg = union(PENDING, union(MODIFIED, PR))
    /\ Live

\* C3: SecInfo::tcs() returns a descriptor of class Tcs with empty flags (byte 0)
\* and reserved all zero.
C3_TcsResult ==
    last.op = "tcs" =>
        /\ Live
        /\ desc[1].class = "Tcs"
        /\ desc[1].flags = 0
        /\ desc[1].reserved = [i \in 1..31 |-> 0]

C3_Witness ==
    /\ last.op = "tcs"
    /\ Live

\* C4: every byte view of a descriptor has length 64, byte 0 is the flags bit
\* pattern with bits 6 and 7 zero, byte 1 is the tag of the class, bytes 2..63
\* are zero; two views of the same descriptor are equal, and taking a view
\* leaves the descriptor as it was.
C4_ViewBytes ==
    \A i \in DOMAIN views :
        /\ Len(views[i]) = 64
        /\ views[i][1] = desc[1].flags
        /\ BitAnd(views[i][1], 192) = 0
        /\ views[i][2] = ClassTag(desc[1].class)
        /\ \A k \in 3..64 : views[i][k] = 0
        /\ \A j \in DOMAIN views : views[j] = views[i]

C4_View ==
    /\ []C4_ViewBytes
    /\ [][last'.op = "as_ref" => desc' = desc]_vars

C4_Witness ==
    /\ Len(views) = 2
    /\ desc[1].class = "Reg"
    /\ desc[1].flags = all

\* C5: decoding the byte view of a descriptor built by reg or tcs gives back its
\* flags and class, and no other descriptor built by reg or tcs has the same view.
C5_RoundTrip ==
    (Live /\ desc[1] \in Constructed) =>
        \A i \in DOMAIN views :
            /\ DecodeView(views[i]) = [flags |-> desc[1].flags, class |-> desc[1].class]
            /\ \A x \in Constructed :
                  ViewOf[x] = views[i] => (x.flags = desc[1].flags /\ x.class = desc[1].class)

C5_Witness ==
    /\ views # <<>>
    /\ last.op = "as_ref"
    /\ desc[1] = tcs

\* C6: no Flags value reachable by the set operations has bit 6 or bit 7 set.
C6_Closed ==
    /\ BitAnd(fa, 192) = 0
    /\ BitAnd(fb, 192) = 0

C6_Witness ==
    /\ last.op = "complement"
    /\ fa = 63 - 5

\* C7: R | W | X has exactly bits 0, 1, 2; union is commutative and idempotent;
\* the intersection with the empty set is empty.
C7_Algebra ==
    /\ union(union(R, W), X) = 7
    /\ union(fa, fb) = union(fb, fa)
    /\ union(fa, fa) = fa
    /\ union(fb, fb) = fb
    /\ intersection(fa, empty) = 0
    /\ intersection(empty, fb) = 0

C7_Witness ==
    /\ fa = 3
    /\ fb = 6
    /\ last.op = "union"

\* C8: Class has exactly the five variants Secs=0, Tcs=1, Reg=2, Va=3, Trim=4,
\* with distinct tags, and the class of a descriptor always has a tag in 0..4.
C8_ClassTags ==
    /\ Cardinality(Class) = 5
    /\ ClassTag("Secs") = 0
    /\ ClassTag("Tcs") = 1
    /\ ClassTag("Reg") = 2
    /\ ClassTag("Va") = 3
    /\ ClassTag("Trim") = 4
    /\ \A c1, c2 \in Class : ClassTag(c1) = ClassTag(c2) => c1 = c2
    /\ Live => (desc[1].class \in Class /\ ClassTag(desc[1].class) \in 0..4)
    /\ \A i \in DOMAIN views : views[i][2] \in 0..4

C8_Witness ==
    /\ Live
    /\ desc[1].class = "Trim"
    /\ views # <<>>
    /\ views[1][2] = 4

\* C9 (as stated): after any sequence of reg, tcs, copy and assignments to the
\* public fields, the descriptor has class Reg, or class Tcs with empty flags.
C9_Original ==
    Live => Covered(desc[1])

\* C9 (amended): reg and tcs return only descriptors of class Reg, or of class
\* Tcs with empty flags, and copying or viewing such a descriptor keeps it so;
\* only an assignment to the public fields leads to another combination.
C9_Amended ==
    [][ /\ last'.op \in {"reg", "tcs"} => Covered(desc'[1])
        /\ (last'.op \in {"copy", "as_ref", "release"} /\ Covered(desc[1]))
              => Covered(desc'[1]) ]_vars

C9_Witness ==
    /\ last.op = "copy"
    /\ desc[1].class = "Tcs"
    /\ desc[1].flags = 0

\* C10: the 31 reserved words of a descriptor are zero in every reachable state,
\* whatever copies and field assignments it went through, and so are bytes 2..63
\* of every view of it.
C10_ReservedZero ==
    /\ Live =>
          /\ Len(desc[1].reserved) = 31
          /\ \A w \in DOMAIN desc[1].reserved : desc[1].reserved[w] = 0
    /\ \A i \in DOMAIN views : \A k \in 3..Len(views[i]) : views[i][k] = 0

C10_Witness ==
    /\ last.op = "copy"
    /\ desc[1].class = "Secs"
    /\ desc[1].flags = union(R, W)

====
